---- MODULE Spec2Model ----
(***************************************************************************)
(* Model of the two scripts of the repository:                             *)
(*   dataset/main/stl10_resnet18/finetune.py     (training + checkpoints)  *)
(*   dataset/ablation/numberckpt_001/reselect.py (copy one checkpoint)     *)
(* Strings are sequences of one-character strings, so that zero padding,   *)
(* substring tests and lexicographic sorting are computed, not assumed.    *)
(* Accuracies are integers in ten-thousandths (1.0 is 10000).              *)
(***************************************************************************)
EXTENDS Integers, Sequences, FiniteSets, TLC

VARIABLES
    config,         \* finetune.py: the config dict (total_save_number)
    total_batches,  \* finetune.py: len(train_loader)
    pc,             \* finetune.py: position in the __main__ loop
    j,              \* finetune.py: pass counter of `for j in range(6)`
    batch_idx,      \* finetune.py: enumerate index inside the pass
    ckpt_num,       \* finetune.py: checkpoint counter
    model_state,    \* finetune.py: model.state_dict(), key -> number of writes to the tensor
    saved,          \* finetune.py: log of the torch.save calls, in order
    fs_src,         \* reselect.py: source checkpoint directory, name -> content
    fs_src_exists,  \* reselect.py: whether the source directory exists
    fs_dst,         \* reselect.py: ./checkpoint, name -> content
    fs_dst_exists,  \* reselect.py: whether ./checkpoint exists
    fs_init,        \* reselect.py: the file system as the run found it
    src,            \* reselect.py: the list `src`
    rpc,            \* reselect.py: index of the next statement of Program
    raised          \* reselect.py: the exception that ended the run, or "none"

vars == <<config, total_batches, pc, j, batch_idx, ckpt_num, model_state, saved,
          fs_src, fs_src_exists, fs_dst, fs_dst_exists, fs_init, src, rpc, raised>>

finetune_vars == <<config, total_batches, pc, j, batch_idx, ckpt_num, model_state, saved>>

reselect_vars == <<fs_src, fs_src_exists, fs_dst, fs_dst_exists, fs_init, src, rpc, raised>>

----------------------------------------------------------------------------
(* Bounds of the model. *)

\* largest total_save_number the configuration is drawn from
MaxQ == 7

\* largest number of batches per pass
MaxN == 4

\* largest number of files in the source checkpoint directory
MaxFiles == 3

----------------------------------------------------------------------------
(* Strings. *)

\* the characters used, in code-point order
AsciiOrder == <<".", "/", "0", "1", "2", "3", "4", "5", "6", "7", "8", "9", "_", "a", "b", "c", "d", "e", "f", "g", "h", "i", "j", "k", "l", "m", "n", "o", "p", "q", "r", "s", "t", "u", "v", "w", "x", "y", "z">>

Ord(c) == CHOOSE i \in 1..Len(AsciiOrder) : AsciiOrder[i] = c

\* Python's str < str: lexicographic by code point, a proper prefix is smaller
RECURSIVE StrLess(_, _)
StrLess(s, t) ==
    IF t = <<>> THEN FALSE
    ELSE IF s = <<>> THEN TRUE
    ELSE IF Head(s) = Head(t) THEN StrLess(Tail(s), Tail(t))
    ELSE Ord(Head(s)) < Ord(Head(t))

\* Python's `needle in hay` on strings
Contains(needle, hay) ==
    \E i \in 0..(Len(hay) - Len(needle)) :
        SubSeq(hay, i + 1, i + Len(needle)) = needle

DigitChar(d) == <<"0", "1", "2", "3", "4", "5", "6", "7", "8", "9">>[d + 1]

\* str(n) for a natural number
RECURSIVE Str(_)
Str(n) == IF n < 10 THEN <<DigitChar(n)>> ELSE Str(n \div 10) \o <<DigitChar(n % 10)>>

\* str.zfill(width) of an unsigned digit string
RECURSIVE zfill(_, _)
zfill(s, width) == IF Len(s) >= width THEN s ELSE zfill(<<"0">> \o s, width)

\* f"{acc:.4f}" for acc given in ten-thousandths
FormatAcc(acc) == Str(acc \div 10000) \o <<".">> \o zfill(Str(acc % 10000), 4)

\* f"{seed:04d}"
FormatSeed(seed) == zfill(Str(seed), 4)

----------------------------------------------------------------------------
(* finetune.py: configuration and model. *)

\* config["epochs"]
Epochs == 1

\* config["seed"]
Seed == 40

\* config["tag"]: the name of the script's directory
Tag == <<"s", "t", "l", "1", "0", "_", "r", "e", "s", "n", "e", "t", "1", "8">>

\* get_config(): the defaults, total_save_number as config.json sets it
get_config(q) == [epochs |-> Epochs, total_save_number |-> q, seed |-> Seed, tag |-> Tag]

\* range(6)
NumPasses == 6

save_interval == 1

\* line 161: loss, acc = 1., 1. (in ten-thousandths)
HardcodedAcc == 10000

\* the accuracies test() can return, in ten-thousandths
AccValues == {9000, 10000}

K_conv1_weight == <<"c", "o", "n", "v", "1", ".", "w", "e", "i", "g", "h", "t">>

K_bn1_weight == <<"b", "n", "1", ".", "w", "e", "i", "g", "h", "t">>

K_layer4_0_bn1_weight == <<"l", "a", "y", "e", "r", "4", ".", "0", ".", "b", "n", "1", ".", "w", "e", "i", "g", "h", "t">>

K_layer4_1_conv1_weight == <<"l", "a", "y", "e", "r", "4", ".", "1", ".", "c", "o", "n", "v", "1", ".", "w", "e", "i", "g", "h", "t">>

K_layer4_1_bn1_weight == <<"l", "a", "y", "e", "r", "4", ".", "1", ".", "b", "n", "1", ".", "w", "e", "i", "g", "h", "t">>

K_layer4_1_bn1_bias == <<"l", "a", "y", "e", "r", "4", ".", "1", ".", "b", "n", "1", ".", "b", "i", "a", "s">>

K_layer4_1_conv2_weight == <<"l", "a", "y", "e", "r", "4", ".", "1", ".", "c", "o", "n", "v", "2", ".", "w", "e", "i", "g", "h", "t">>

K_layer4_1_bn2_weight == <<"l", "a", "y", "e", "r", "4", ".", "1", ".", "b", "n", "2", ".", "w", "e", "i", "g", "h", "t">>

K_layer4_1_bn2_bias == <<"l", "a", "y", "e", "r", "4", ".", "1", ".", "b", "n", "2", ".", "b", "i", "a", "s">>

K_fc_weight == <<"f", "c", ".", "w", "e", "i", "g", "h", "t">>

K_fc_bias == <<"f", "c", ".", "b", "i", "a", "s">>

K_layer4_1_bn2_running_mean == <<"l", "a", "y", "e", "r", "4", ".", "1", ".", "b", "n", "2", ".", "r", "u", "n", "n", "i", "n", "g", "_", "m", "e", "a", "n">>

\* model.named_parameters() of the resnet18 (a representative part of it)
ParameterNames == {K_conv1_weight,
                   K_bn1_weight,
                   K_layer4_0_bn1_weight,
                   K_layer4_1_conv1_weight,
                   K_layer4_1_bn1_weight,
                   K_layer4_1_bn1_bias,
                   K_layer4_1_conv2_weight,
                   K_layer4_1_bn2_weight,
                   K_layer4_1_bn2_bias,
                   K_fc_weight,
                   K_fc_bias}

\* the buffers of the model: batch-norm running statistics
BufferNames == {K_layer4_1_bn2_running_mean}

\* the keys of model.state_dict()
StateDictKeys == ParameterNames \cup BufferNames

\* the normalization layers of the model, in module order
NormLayers == <<<<"b", "n", "1">>, <<"l", "a", "y", "e", "r", "4", ".", "0", ".", "b", "n", "1">>, <<"l", "a", "y", "e", "r", "4", ".", "1", ".", "b", "n", "1">>, <<"l", "a", "y", "e", "r", "4", ".", "1", ".", "b", "n", "2">>>>

\* torch.load(pretrained.pth) + load_state_dict: every tensor as loaded
Pretrained == [k \in StateDictKeys |-> 0]

last_two_norms == {K_layer4_1_bn1_weight, K_layer4_1_bn1_bias,
                   K_layer4_1_bn2_weight, K_layer4_1_bn2_bias}

\* any(norm in name for norm in last_two_norms)
MatchesNorm(name) == \E norm \in last_two_norms : Contains(norm, name)

\* get_optimizer_and_scheduler: param.requires_grad
requires_grad(name) == MatchesNorm(name)

trainable_params_all == ParameterNames

\* get_optimizer_and_scheduler: the parameters handed to AdamW
trainable_params == {name \in ParameterNames : requires_grad(name)}

\* what one training step may write: the optimizer's parameters, and the
\* buffers that the forward pass in train mode updates
Updatable == trainable_params \cup BufferNames

save_state_keys_all == StateDictKeys

\* save_checkpoint: the keys of save_state
save_state_keys == {key \in StateDictKeys : MatchesNorm(key)}

CkptName_zfill3(idx, acc, cfg) ==
    zfill(Str(idx), 3) \o <<"_", "a", "c", "c">> \o FormatAcc(acc)
        \o <<"_", "s", "e", "e", "d">> \o FormatSeed(cfg.seed) \o <<"_">> \o cfg.tag \o <<".", "p", "t", "h">>

\* save_checkpoint: the file name inside checkpoint/
CkptName(idx, acc, cfg) ==
    zfill(Str(idx), 4) \o <<"_", "a", "c", "c">> \o FormatAcc(acc)
        \o <<"_", "s", "e", "e", "d">> \o FormatSeed(cfg.seed) \o <<"_">> \o cfg.tag \o <<".", "p", "t", "h">>

SaveCondition_gt0(b, n) ==
    ((b + 1) % save_interval = 0 \/ b = n - 1) /\ b > 0

\* line 159: the condition under which the batch is followed by a save
SaveCondition(b, n) ==
    ((b + 1) % save_interval = 0 \/ b = n - 1) /\ b > 1

CkptIndex_batch(n, b, jj) == b + 400 * jj

\* line 163: the index handed to save_checkpoint
CkptIndex(n, b, jj) == n

QuotaReached_gt(n, cfg) == n > cfg.total_save_number

\* line 166
QuotaReached(n, cfg) == n >= cfg.total_save_number

----------------------------------------------------------------------------
(* finetune.py: the __main__ loop. *)

InitFinetune ==
    /\ config \in {get_config(q) : q \in 0..MaxQ}
    /\ total_batches \in 0..MaxN
    /\ pc = "for_j"
    /\ j = 0
    /\ batch_idx = 0
    /\ ckpt_num = 0
    /\ model_state = Pretrained
    /\ saved = <<>>

\* line 147: the next pass starts; enumerate(pbar) iterates the loader anew
\* and counts from 0 again in every pass
ForPass ==
    /\ pc = "for_j"
    /\ j < NumPasses
    /\ pc' = "for_batch"
    /\ batch_idx' = 0
    /\ UNCHANGED <<config, total_batches, j, ckpt_num, model_state, saved>>
    /\ UNCHANGED reselect_vars

\* line 147: range(6) is exhausted, the script ends
Finish ==
    /\ pc = "for_j"
    /\ j = NumPasses
    /\ pc' = "end"
    /\ UNCHANGED <<config, total_batches, j, batch_idx, ckpt_num, model_state, saved>>
    /\ UNCHANGED reselect_vars

\* lines 148-157: the next batch is fetched and trained on
TrainStep ==
    /\ pc = "for_batch"
    /\ batch_idx < total_batches
    /\ model_state' = [k \in StateDictKeys |->
                          IF k \in Updatable THEN model_state[k] + 1 ELSE model_state[k]]
    /\ pc' = "save"
    /\ UNCHANGED <<config, total_batches, j, batch_idx, ckpt_num, saved>>
    /\ UNCHANGED reselect_vars

\* line 148: the loader is exhausted, the pass ends
EndPass ==
    /\ pc = "for_batch"
    /\ batch_idx >= total_batches
    /\ j' = j + 1
    /\ pc' = "for_j"
    /\ UNCHANGED <<config, total_batches, batch_idx, ckpt_num, model_state, saved>>
    /\ UNCHANGED reselect_vars

\* lines 159-164: save_checkpoint when the condition holds
SaveStep ==
    /\ pc = "save"
    /\ IF SaveCondition(batch_idx, total_batches)
       THEN \E true_acc \in AccValues :
               LET acc == HardcodedAcc
               IN  /\ saved' = Append(saved,
                          [name |-> CkptName(CkptIndex(ckpt_num, batch_idx, j), acc, config),
                           keys |-> save_state_keys,
                           j |-> j, b |-> batch_idx, true_acc |-> true_acc])
                   /\ ckpt_num' = ckpt_num + 1
       ELSE UNCHANGED <<saved, ckpt_num>>
    /\ pc' = "quota"
    /\ UNCHANGED <<config, total_batches, j, batch_idx, model_state>>
    /\ UNCHANGED reselect_vars

\* lines 165-168: exit(0) once the quota is reached, else the next batch
QuotaCheck ==
    /\ pc = "quota"
    /\ IF QuotaReached(ckpt_num, config)
       THEN pc' = "exited" /\ UNCHANGED batch_idx
       ELSE pc' = "for_batch" /\ batch_idx' = batch_idx + 1
    /\ UNCHANGED <<config, total_batches, j, ckpt_num, model_state, saved>>
    /\ UNCHANGED reselect_vars

NextFinetune ==
    \/ ForPass
    \/ Finish
    \/ TrainStep
    \/ EndPass
    \/ SaveStep
    \/ QuotaCheck

----------------------------------------------------------------------------
(* reselect.py. *)

\* the directory listed: a checkpoint directory as finetune.py writes it
SrcDir == <<".", ".", "/", ".", ".", "/", "m", "a", "i", "n", "/", "c", "i", "f", "a", "r", "1", "0", "0", "_", "r", "e", "s", "n", "e", "t", "1", "8", "/", "c", "h", "e", "c", "k", "p", "o", "i", "n", "t">>

OriginName == <<"o", "r", "i", "g", "i", "n", ".", "p", "t", "h">>

RepeatName == <<"r", "e", "p", "e", "a", "t", ".", "p", "t", "h">>

\* a file that an earlier run may have left in ./checkpoint
OtherName == <<"o", "t", "h", "e", "r", ".", "p", "t", "h">>

\* content of a file of ./checkpoint that the run did not write
Stale == <<"stale", 0>>

\* the checkpoint indices the source directory is drawn from; the file of
\* index i holds <<"ckpt", i>>
SampleIdx == {0, 1, 9, 10, 999, 1000, 9999, 10000}

\* the file that save_checkpoint writes for index i (acc is always 1.0)
FileOf(i) == CkptName(i, 10000, get_config(0))

\* os.path.join(dir, name)
PathJoin(dir, name) == dir \o <<"/">> \o name

\* the file name of a path made by PathJoin(SrcDir, name)
BaseName(path) == SubSeq(path, Len(SrcDir) + 2, Len(path))

\* all orders in which os.listdir may return the names
Listings(names) ==
    {s \in [1..Cardinality(names) -> names] : \A a, b \in DOMAIN s : a # b => s[a] # s[b]}

RECURSIVE Insert(_, _)
Insert(x, s) ==
    IF s = <<>> THEN <<x>>
    ELSE IF StrLess(x, Head(s)) THEN <<x>> \o s
    ELSE <<Head(s)>> \o Insert(x, Tail(s))

\* list.sort() on strings
RECURSIVE SortPaths(_)
SortPaths(s) == IF s = <<>> THEN <<>> ELSE Insert(Head(s), SortPaths(Tail(s)))

TakeFirst_last(s) == IF s = <<>> THEN <<>> ELSE <<s[Len(s)]>>

\* src[:1]
TakeFirst(s) == IF s = <<>> THEN <<>> ELSE <<s[1]>>

\* shutil.copy(path, dst/target) for every path of the list, in order
RECURSIVE CopyEach(_, _, _, _)
CopyEach(paths, target, from, to) ==
    IF paths = <<>> THEN to
    ELSE CopyEach(Tail(paths), target, from,
                  [n \in DOMAIN to \cup {target} |->
                      IF n = target THEN from[BaseName(Head(paths))] ELSE to[n]])

Program_makedirs_first == <<"makedirs", "listdir", "sort", "slice", "copy_origin", "copy_repeat">>

\* the statements of the module body, in order
Program == <<"listdir", "makedirs", "sort", "slice", "copy_origin", "copy_repeat">>

Stmt == IF rpc \in DOMAIN Program /\ raised = "none" THEN Program[rpc] ELSE "stop"

EmptyDir == [n \in {} |-> Stale]

InitReselect ==
    /\ fs_src_exists \in BOOLEAN
    /\ \E S \in SUBSET SampleIdx :
          /\ Cardinality(S) <= MaxFiles
          /\ fs_src_exists \/ S = {}
          /\ fs_src = [n \in {FileOf(i) : i \in S} |->
                          <<"ckpt", CHOOSE i \in S : FileOf(i) = n>>]
    /\ fs_dst_exists \in BOOLEAN
    /\ fs_dst \in IF fs_dst_exists
                  THEN {EmptyDir, [n \in {OriginName} |-> Stale], [n \in {OtherName} |-> Stale]}
                  ELSE {EmptyDir}
    /\ fs_init = [src_exists |-> fs_src_exists, src |-> fs_src,
                  dst_exists |-> fs_dst_exists, dst |-> fs_dst]
    /\ src = <<>>
    /\ rpc = 1
    /\ raised = "none"

\* lines 6-7: os.listdir of the source directory, each name joined to it
ListDir ==
    /\ Stmt = "listdir"
    /\ IF fs_src_exists
       THEN /\ \E names \in Listings(DOMAIN fs_src) :
                  src' = [i \in DOMAIN names |-> PathJoin(SrcDir, names[i])]
            /\ rpc' = rpc + 1
            /\ UNCHANGED raised
       ELSE /\ raised' = "FileNotFoundError"
            /\ UNCHANGED <<src, rpc>>
    /\ UNCHANGED <<fs_src, fs_src_exists, fs_dst, fs_dst_exists, fs_init>>
    /\ UNCHANGED finetune_vars

\* lines 8-9: os.makedirs("./checkpoint", exist_ok=True)
MakeDirs ==
    /\ Stmt = "makedirs"
    /\ fs_dst_exists' = TRUE
    /\ rpc' = rpc + 1
    /\ UNCHANGED <<fs_src, fs_src_exists, fs_dst, fs_init, src, raised>>
    /\ UNCHANGED finetune_vars

\* line 12: src.sort()
Sort ==
    /\ Stmt = "sort"
    /\ src' = SortPaths(src)
    /\ rpc' = rpc + 1
    /\ UNCHANGED <<fs_src, fs_src_exists, fs_dst, fs_dst_exists, fs_init, raised>>
    /\ UNCHANGED finetune_vars

\* line 13: src = src[:1]
Slice ==
    /\ Stmt = "slice"
    /\ src' = TakeFirst(src)
    /\ rpc' = rpc + 1
    /\ UNCHANGED <<fs_src, fs_src_exists, fs_dst, fs_dst_exists, fs_init, raised>>
    /\ UNCHANGED finetune_vars

\* lines 14-15: the first copy loop
CopyOrigin ==
    /\ Stmt = "copy_origin"
    /\ fs_dst' = CopyEach(src, OriginName, fs_src, fs_dst)
    /\ rpc' = rpc + 1
    /\ UNCHANGED <<fs_src, fs_src_exists, fs_dst_exists, fs_init, src, raised>>
    /\ UNCHANGED finetune_vars

\* lines 16-17: the second copy loop
CopyRepeat ==
    /\ Stmt = "copy_repeat"
    /\ fs_dst' = CopyEach(src, RepeatName, fs_src, fs_dst)
    /\ rpc' = rpc + 1
    /\ UNCHANGED <<fs_src, fs_src_exists, fs_dst_exists, fs_init, src, raised>>
    /\ UNCHANGED finetune_vars

NextReselect ==
    \/ ListDir
    \/ MakeDirs
    \/ Sort
    \/ Slice
    \/ CopyOrigin
    \/ CopyRepeat

\* the run has ended without an error
ReselectDone == rpc = Len(Program) + 1 /\ raised = "none"

----------------------------------------------------------------------------
(* Specifications. *)

\* reselect.py has not run
IdleReselect ==
    /\ fs_src = EmptyDir
    /\ fs_src_exists = FALSE
    /\ fs_dst = EmptyDir
    /\ fs_dst_exists = FALSE
    /\ fs_init = [src_exists |-> FALSE, src |-> EmptyDir,
                  dst_exists |-> FALSE, dst |-> EmptyDir]
    /\ src = <<>>
    /\ rpc = 1
    /\ raised = "none"

\* finetune.py has not run
IdleFinetune ==
    /\ config = get_config(0)
    /\ total_batches = 0
    /\ pc = "for_j"
    /\ j = 0
    /\ batch_idx = 0
    /\ ckpt_num = 0
    /\ model_state = Pretrained
    /\ saved = <<>>

Init == InitFinetune /\ IdleReselect

Next == NextFinetune

\* a run of finetune.py
Spec == Init /\ [][Next]_vars

InitR == InitReselect /\ IdleFinetune

NextR == NextReselect

\* a run of reselect.py
SpecReselect == InitR /\ [][NextR]_vars

----------------------------------------------------------------------------
(* Helpers of the properties. *)

DigitValue(c) == CHOOSE d \in 0..9 : DigitChar(d) = c

\* the number a digit string denotes
RECURSIVE ParseNat(_)
ParseNat(s) ==
    IF s = <<>> THEN 0
    ELSE ParseNat(SubSeq(s, 1, Len(s) - 1)) * 10 + DigitValue(s[Len(s)])

\* the first field of a checkpoint name: the text before the first "_"
RECURSIVE IndexField(_)
IndexField(name) ==
    IF name = <<>> \/ Head(name) = "_" THEN <<>>
    ELSE <<Head(name)>> \o IndexField(Tail(name))

\* the accuracy field of a checkpoint name: the text between "_acc" and "_seed"
RECURSIVE UpToUnderscore(_)
UpToUnderscore(s) ==
    IF s = <<>> \/ Head(s) = "_" THEN <<>>
    ELSE <<Head(s)>> \o UpToUnderscore(Tail(s))

AccField(name) ==
    LET rest == SubSeq(name, Len(IndexField(name)) + 5, Len(name))
    IN  UpToUnderscore(rest)

\* the index in the name of a checkpoint file
IndexOf(name) == ParseNat(IndexField(name))

\* the iteration (pass jj, batch bb) has passed line 164
Decided(jj, bb) ==
    \/ jj < j
    \/ /\ jj = j
       /\ pc \in {"for_batch", "save", "quota", "exited"}
       /\ \/ bb < batch_idx
          \/ bb = batch_idx /\ pc \in {"quota", "exited"}

SavedAt(jj, bb) == \E i \in 1..Len(saved) : saved[i].j = jj /\ saved[i].b = bb

\* the weight and the bias of a normalization layer
NormKeys(layer) == {layer \o <<".", "w", "e", "i", "g", "h", "t">>,
                    layer \o <<".", "b", "i", "a", "s">>}

LastNorm == NormLayers[Len(NormLayers)]

LastTwoNorms == {NormLayers[Len(NormLayers) - 1], NormLayers[Len(NormLayers)]}

\* the position of a statement in the module body of reselect.py
PosOf(stmt) == CHOOSE i \in DOMAIN Program : Program[i] = stmt

\* the name whose path is the smallest string of the source directory
FirstName(dir) ==
    CHOOSE n \in DOMAIN dir :
        \A m \in DOMAIN dir \ {n} : StrLess(PathJoin(SrcDir, n), PathJoin(SrcDir, m))

\* the name with the smallest checkpoint index of the source directory
MinIndexName(dir) ==
    CHOOSE n \in DOMAIN dir : \A m \in DOMAIN dir : IndexOf(n) <= IndexOf(m)

FsUnchanged ==
    /\ fs_src = fs_init.src
    /\ fs_src_exists = fs_init.src_exists
    /\ fs_dst = fs_init.dst
    /\ fs_dst_exists = fs_init.dst_exists

----------------------------------------------------------------------------
(* Properties of finetune.py, checked under Spec. *)

\* C1: with total_save_number Q >= 1 the number of checkpoints saved never
\* exceeds Q, and once it is Q the run is in the quota check of the iteration
\* that saved the Q-th checkpoint, or has exited from it: no batch is fetched
\* or trained on after the Q-th save.
C1_QuotaExit ==
    config.total_save_number >= 1 =>
        /\ Len(saved) <= config.total_save_number
        /\ Len(saved) = config.total_save_number =>
              /\ pc \in {"quota", "exited"}
              /\ saved[Len(saved)].j = j
              /\ saved[Len(saved)].b = batch_idx
        /\ pc = "exited" => Len(saved) = config.total_save_number

C1_Witness ==
    /\ pc = "exited"
    /\ config.total_save_number >= 2
    /\ Len(saved) = config.total_save_number
    /\ j >= 1

\* C3: the k checkpoints saved so far carry the indices 0..k-1 in the order
\* they were saved, also across pass boundaries.
C3_Indices ==
    /\ ckpt_num = Len(saved)
    /\ \A i \in 1..Len(saved) : IndexOf(saved[i].name) = i - 1

C3_Witness ==
    /\ Len(saved) >= 3
    /\ \E i \in 1..(Len(saved) - 1) : saved[i].j < saved[i + 1].j

\* C4 as amended: a key of the state dict is in a saved checkpoint iff it is
\* the weight or the bias of one of the last two normalization layers.
C4_LastTwoNorms ==
    \A i \in 1..Len(saved) :
        /\ saved[i].keys \subseteq StateDictKeys
        /\ \A key \in StateDictKeys :
              key \in saved[i].keys <=> \E layer \in LastTwoNorms : key \in NormKeys(layer)

C4_Witness ==
    /\ Len(saved) >= 1
    /\ K_layer4_1_bn1_weight \in saved[1].keys

\* C4 as stated: a key of the state dict is in a saved checkpoint iff it is
\* the weight or the bias of the last normalization layer.
C4_OnlyLastNorm ==
    \A i \in 1..Len(saved) :
        \A key \in StateDictKeys :
            key \in saved[i].keys <=> key \in NormKeys(LastNorm)

\* C5: the loop runs at most config["epochs"] passes over the training data.
C5_AtMostEpochsPasses ==
    IF pc \in {"for_batch", "save", "quota", "exited"}
    THEN j + 1 <= config.epochs
    ELSE j <= config.epochs

\* C6: the accuracy field of every checkpoint name is the accuracy of the
\* model state saved in that file, formatted with 4 decimals.
C6_AccFieldIsAccuracy ==
    \A i \in 1..Len(saved) : AccField(saved[i].name) = FormatAcc(saved[i].true_acc)

\* C7: a batch b of a pass of N batches is followed by a save exactly when
\* ((b + 1) is a multiple of save_interval or b = N - 1) and b > 1; with
\* save_interval = 1 that is every batch but the first two of each pass, and
\* with N <= 2 nothing is ever saved.
C7_SaveInterval ==
    /\ \A jj \in 0..(NumPasses - 1) : \A bb \in 0..(total_batches - 1) :
          Decided(jj, bb) =>
              /\ SavedAt(jj, bb) <=>
                    (((bb + 1) % save_interval = 0 \/ bb = total_batches - 1) /\ bb > 1)
              /\ SavedAt(jj, bb) <=> bb >= 2
    /\ \A i \in 1..Len(saved) : Decided(saved[i].j, saved[i].b)
    /\ \A i, k \in 1..Len(saved) :
          saved[i].j = saved[k].j /\ saved[i].b = saved[k].b => i = k
    /\ total_batches <= 2 => saved = <<>>

C7_Witness ==
    /\ pc = "quota"
    /\ j >= 1
    /\ batch_idx = 2
    /\ SavedAt(j, 2)
    /\ ~SavedAt(j, 1)
    /\ ~SavedAt(j, 0)

\* C9: the parameters that training has changed are the keys a checkpoint
\* stores: a parameter is trainable iff its name contains one of the four
\* names, every checkpoint holds exactly the trainable parameters, and every
\* other parameter is as it was loaded.
C9_TrainedEqualsSaved ==
    /\ \A name \in ParameterNames :
          name \in trainable_params <=> \E norm \in last_two_norms : Contains(norm, name)
    /\ \A i \in 1..Len(saved) : saved[i].keys = trainable_params
    /\ \A name \in ParameterNames \ save_state_keys : model_state[name] = Pretrained[name]
    /\ (\E k \in StateDictKeys : model_state[k] # Pretrained[k]) =>
          {name \in ParameterNames : model_state[name] # Pretrained[name]} = save_state_keys

C9_Witness ==
    /\ Len(saved) >= 1
    /\ model_state[K_layer4_1_bn2_bias] >= 3
    /\ model_state[K_fc_weight] = 0

----------------------------------------------------------------------------
(* Properties of reselect.py, checked under SpecReselect. *)

\* C2: when the source directory holds at least one file, after the run
\* origin.pth and repeat.pth both hold the content of the first entry of the
\* sorted listing, ./checkpoint holds no other new file, and the source
\* directory is as it was.
C2_CopiesFirstTwice ==
    (ReselectDone /\ fs_init.src_exists /\ DOMAIN fs_init.src # {}) =>
        /\ fs_dst_exists
        /\ {OriginName, RepeatName} \subseteq DOMAIN fs_dst
        /\ fs_dst[OriginName] = fs_init.src[FirstName(fs_init.src)]
        /\ fs_dst[RepeatName] = fs_init.src[FirstName(fs_init.src)]
        /\ DOMAIN fs_dst = DOMAIN fs_init.dst \cup {OriginName, RepeatName}
        /\ \A n \in DOMAIN fs_init.dst \ {OriginName, RepeatName} : fs_dst[n] = fs_init.dst[n]
        /\ fs_src = fs_init.src
        /\ fs_src_exists

C2_Witness ==
    /\ ReselectDone
    /\ Cardinality(DOMAIN fs_init.src) >= 2
    /\ OtherName \in DOMAIN fs_init.dst
    /\ fs_dst[OriginName] = fs_dst[RepeatName]
    /\ fs_dst[OriginName] # Stale

\* C8: while every index is below 10000 the sorted listing is in index
\* order and the entry kept by src[:1] is the one with the smallest index
\* (index 0 when it is there); the names of the indices 1000 and 10000 sort
\* against their indices.
C8_NameOrder ==
    /\ (fs_src_exists /\ \A n \in DOMAIN fs_src : IndexOf(n) < 10000) =>
          /\ rpc = PosOf("sort") + 1 =>
                \A a, b \in DOMAIN src :
                    a < b => IndexOf(BaseName(src[a])) < IndexOf(BaseName(src[b]))
          /\ (rpc > PosOf("slice") /\ DOMAIN fs_src # {}) =>
                /\ src = <<PathJoin(SrcDir, MinIndexName(fs_src))>>
                /\ FileOf(0) \in DOMAIN fs_src => IndexOf(BaseName(src[1])) = 0
    /\ StrLess(FileOf(10000), FileOf(1000))

C8_Witness ==
    /\ rpc > PosOf("slice")
    /\ Cardinality(DOMAIN fs_src) >= 3
    /\ \A n \in DOMAIN fs_src : IndexOf(n) < 10000
    /\ FileOf(999) \in DOMAIN fs_src
    /\ src = <<PathJoin(SrcDir, FileOf(0))>>

\* C10: with an empty source directory the run ends without an error, with
\* ./checkpoint existing and its files as they were; with no source directory
\* the run stops with an error at the listing, the file system unchanged.
C10_EdgeCases ==
    /\ (fs_init.src_exists /\ DOMAIN fs_init.src = {}) =>
          /\ raised = "none"
          /\ ReselectDone \/ ENABLED NextR
          /\ ReselectDone => fs_dst_exists /\ fs_dst = fs_init.dst /\ fs_src = fs_init.src
    /\ ~fs_init.src_exists =>
          /\ Program[rpc] = "listdir"
          /\ raised \in {"none", "FileNotFoundError"}
          /\ raised = "none" => ENABLED NextR
          /\ FsUnchanged

C10_Witness ==
    /\ raised = "FileNotFoundError"
    /\ ~fs_init.src_exists
    /\ ~fs_dst_exists

====
